---- MODULE Spec2Model ----
(***************************************************************************)
(* The authentication core of the PortfolioPal backend (src/backend):      *)
(* signup, login, forgot-password, reset-password, the bearer-token        *)
(* dependency get_current_user and the endpoints it protects, over the     *)
(* MongoDB collections user, activity and passwordreset.                   *)
(*                                                                         *)
(* The code holds no lock and opens no transaction.  signup decides on a   *)
(* lookup and writes afterwards, so it is a process of two steps, the      *)
(* lookup and the writes (the user and its activity entry, which no        *)
(* handler's decision reads), and any request may be served between them.  *)
(* Every other handler is one step.  The created_at and updated_at         *)
(* stamps, the client address and the csrf value are not read by any       *)
(* handler and are left out.  The variable out holds the response the last *)
(* step sent, until it is delivered; used is a history of the reset tokens *)
(* that changed a password.                                                *)
(*                                                                         *)
(* Time is counted in minutes and advances one hour at a time.  bcrypt is  *)
(* modelled as a one-way wrapper that verifies exactly the password it     *)
(* was computed from (its salt, and its 72-byte input limit, are left      *)
(* out); an HS256 token is its payload together with the key that signed   *)
(* it; an ObjectId and its 24-character string form are distinct values.   *)
(***************************************************************************)
EXTENDS Integers, Sequences, FiniteSets, TLC

\* ------------------------------------------------------------ bounds
\* Concurrent signup handlers.
NProcs == 2
\* Documents the store may grow to, over its three collections.
MaxDocs == 5
\* Hours the clock may advance.
MaxTicks == 2

\* --------------------------------------------------- program constants
ACCESS_TOKEN_EXPIRE_MINUTES == 60
\* hours=1 of timedelta(hours=1) in forgot_password
RESET_TOKEN_HOURS == 1
\* ObjectId strings are recognised by len(user_id) == 24
OBJECTID_HEX_LEN == 24

SECRET_KEY == "dev-secret-change-me"
ALGORITHM == "HS256"

Procs == 1..NProcs
MinutesPerHour == ACCESS_TOKEN_EXPIRE_MINUTES \div RESET_TOKEN_HOURS

\* The addresses requests are made with, and str.lower() on them.
Emails == {"a@x.com", "A@x.com", "MyEmail@domain.com"}

lower(s) ==
    CASE s = "A@x.com" -> "a@x.com"
      [] s = "MyEmail@domain.com" -> "myemail@domain.com"
      [] OTHER -> s

PRIMARY_ADMIN_EMAIL == lower("myemail@domain.com")

\* Passwords of at least 8 characters (UserCreate, ResetPasswordRequest).
Passwords == {"password123", "newpassword456"}

\* Python's None, and the absence of a response in a step that sends none.
None == [none |-> TRUE]

\* ----------------------------------------------------------- variables
VARIABLES
    indexOK,        \* the unique index on user.email exists
    user,           \* collection "user", in insertion (natural) order
    activity,       \* collection "activity"
    passwordreset,  \* collection "passwordreset"
    now,            \* datetime.utcnow(), in minutes
    pc,             \* each signup handler's position
    req,            \* each signup handler's request
    issued,         \* session tokens returned to clients
    used,           \* history: reset tokens a password was changed with
    out             \* the response sent by the last step, or None

vars == <<indexOK, user, activity, passwordreset, now, pc, req, issued, used, out>>
store == <<user, activity, passwordreset>>

\* ----------------------------------------------------- ids and hashes
\* A store-assigned ObjectId, and str() of it: 24 hexadecimal characters.
NewObjectId(col) == [oid |-> Len(col) + 1]
str(id) == IF "oid" \in DOMAIN id THEN [hex |-> id.oid, len |-> OBJECTID_HEX_LEN] ELSE id
ObjectId(s) == [oid |-> s.hex]
IsStr(x) == "hex" \in DOMAIN x

\* filter_id of get_current_user and reset_password
NoConvertFilterId(user_id) == user_id
FilterId(user_id) ==
    IF IsStr(user_id) /\ user_id.len = OBJECTID_HEX_LEN THEN ObjectId(user_id) ELSE user_id

verify_password(plain_password, hashed_password) ==
    "bcrypt" \in DOMAIN hashed_password /\ hashed_password.bcrypt = plain_password

get_password_hash(password) == [bcrypt |-> password]

\* ------------------------------------------------------------- tokens
timedelta_minutes(m) == m
timedelta_hours(h) == h * MinutesPerHour

create_access_token(data, t) ==
    [user_id |-> data.user_id, email |-> data.email,
     exp |-> t + timedelta_minutes(ACCESS_TOKEN_EXPIRE_MINUTES),
     alg |-> ALGORITHM, key |-> SECRET_KEY]

\* jwt.decode(token, key, algorithms): the payload, or None for a JWTError (an
\* algorithm not allowed, a signature made with another key, an exp that passed).
JwtDecodeUnsigned(token, key, algorithms, t) ==
    IF token.exp < t THEN None ELSE [user_id |-> token.user_id, email |-> token.email]
jwt_decode(token, key, algorithms, t) ==
    IF token.alg \notin algorithms \/ token.key # key THEN None
    ELSE IF token.exp < t THEN None
    ELSE [user_id |-> token.user_id, email |-> token.email]

\* ------------------------------------------------- the store adapter
\* The first of the matching positions: find_one and limit=1 return the first
\* match in natural order.
First(S) == CHOOSE i \in S : \A j \in S : i <= j

\* doc["_id"] = str(doc["_id"])
Stringify(doc) == IF doc = None THEN None ELSE [doc EXCEPT !._id = str(doc._id)]

\* get_one(collection, {"email": email})
GetOneNone(col, email) == None
GetOneFirst(col, email) == IF Len(col) = 0 THEN None ELSE Stringify(col[1])
get_one_email(col, email) ==
    LET S == {i \in 1..Len(col) : col[i].email = email}
    IN  IF S = {} THEN None ELSE Stringify(col[First(S)])

\* get_documents(collection, {"token": token}, limit=1)
get_documents_token(col, token) ==
    LET S == {i \in 1..Len(col) : col[i].token = token}
    IN  IF S = {} THEN <<>> ELSE <<Stringify(col[First(S)])>>

\* db["user"].find_one({"_id": filter_id}), before any stringifying
find_one_id(col, filter_id) ==
    LET S == {i \in 1..Len(col) : col[i]._id = filter_id}
    IN  IF S = {} THEN None ELSE col[First(S)]

get_documents_all(col) == [i \in 1..Len(col) |-> Stringify(col[i])]

\* insert_one raises DuplicateKeyError under the unique index on email.
DuplicateKey(col, email) == indexOK /\ \E i \in 1..Len(col) : col[i].email = email

\* update_one({"_id": filter_id}, {"$set": {"password": hashed}})
UpdateAllPasswords(col, filter_id, hashed) ==
    [i \in 1..Len(col) |-> [col[i] EXCEPT !.password = hashed]]
update_one_password(col, filter_id, hashed) ==
    LET S == {i \in 1..Len(col) : col[i]._id = filter_id}
    IN  IF S = {} THEN col ELSE [col EXCEPT ![First(S)].password = hashed]

\* --------------------------------------------------- get_current_user
\* The user document, or None where the code raises the 401 exception.
get_current_user(token, t) ==
    LET payload == jwt_decode(token, SECRET_KEY, {ALGORITHM}, t)
    IN  IF payload = None THEN None
        ELSE Stringify(find_one_id(user, FilterId(payload.user_id)))

AnyoneIsAdmin(u) == TRUE
is_admin(u) == lower(u.email) = PRIMARY_ADMIN_EMAIL

\* ----------------------------------------------------------- requests
Response(op, r, status, detail, body) ==
    [op |-> op, req |-> r, status |-> status, detail |-> detail, body |-> body]

\* credentials_exception of get_current_user
Unauthorized(op, r) == Response(op, r, 401, "Could not validate credentials", None)

\* Whether the store has room for n more documents; a signup past its lookup
\* has two to write.
InFlight == Cardinality({p \in Procs : pc[p] # "idle"})
Room(n) == Len(user) + Len(activity) + Len(passwordreset) + 2 * InFlight + n <= MaxDocs

Init ==
    /\ indexOK \in BOOLEAN
    /\ user = <<>>
    /\ activity = <<>>
    /\ passwordreset = <<>>
    /\ now = 0
    /\ pc = [p \in Procs |-> "idle"]
    /\ req = [p \in Procs |-> None]
    /\ issued = {}
    /\ used = {}
    /\ out = None

\* signup, the existence lookup.
SignupLookup(p) ==
    /\ out = None
    /\ pc[p] = "idle"
    /\ \E email \in Emails, password \in Passwords :
        LET r == [email |-> email, password |-> password]
            existing == get_one_email(user, lower(email))
        IN  IF existing # None
            THEN /\ out' = Response("signup", r, 400, "Email already registered", None)
                 /\ UNCHANGED <<pc, req>>
            ELSE /\ Room(2)
                 /\ pc' = [pc EXCEPT ![p] = "signup_insert"]
                 /\ req' = [req EXCEPT ![p] = r]
                 /\ out' = None
    /\ UNCHANGED <<indexOK, store, now, issued, used>>

\* signup after the lookup: hash, insert the user, sign the token, log, return.
SignupInsert(p) ==
    /\ out = None
    /\ pc[p] = "signup_insert"
    /\ LET r == req[p]
           email == lower(r.email)
           id == NewObjectId(user)
           user_id == str(id)
           token == create_access_token([user_id |-> user_id, email |-> email], now)
       IN  IF DuplicateKey(user, email)
           THEN /\ out' = Response("signup", r, 500, "Internal Server Error", None)
                /\ UNCHANGED <<user, activity, issued>>
           ELSE /\ user' = Append(user, [_id |-> id, email |-> email,
                                         password |-> get_password_hash(r.password)])
                /\ activity' = Append(activity, [user_id |-> user_id, type |-> "signup"])
                /\ issued' = issued \cup {token}
                /\ out' = Response("signup", r, 200, "",
                                   [access_token |-> token, token_type |-> "bearer"])
    /\ pc' = [pc EXCEPT ![p] = "idle"]
    /\ req' = [req EXCEPT ![p] = None]
    /\ UNCHANGED <<indexOK, passwordreset, now, used>>

\* login, the lookup and the check: the user document, or None where the code
\* raises "Incorrect email or password".
authenticate(username, password) ==
    LET u == get_one_email(user, lower(username))
    IN  IF u = None \/ ~verify_password(password, u.password) THEN None ELSE u

login ==
    /\ out = None
    /\ \E email \in Emails, password \in Passwords :
        LET r == [email |-> email, password |-> password]
            u == authenticate(email, password)
        IN  IF u = None
            THEN /\ out' = Response("login", r, 400, "Incorrect email or password", None)
                 /\ UNCHANGED <<store, issued>>
            ELSE LET token == create_access_token([user_id |-> u._id, email |-> u.email], now)
                 IN  /\ Room(1)
                     /\ activity' = Append(activity, [user_id |-> u._id, type |-> "login"])
                     /\ issued' = issued \cup {token}
                     /\ out' = Response("login", r, 200, "",
                                        [access_token |-> token, token_type |-> "bearer"])
                     /\ UNCHANGED <<user, passwordreset>>
    /\ UNCHANGED <<indexOK, now, pc, req, used>>

\* secrets.token_urlsafe(32): a value no earlier call returned.
token_urlsafe == Len(passwordreset) + 1

forgot_password ==
    /\ out = None
    /\ \E email \in Emails :
        LET r == [email |-> email]
            u == get_one_email(user, lower(email))
        IN  IF u # None
            THEN LET token == token_urlsafe
                     expires_at == now + timedelta_hours(RESET_TOKEN_HOURS)
                 IN  /\ Room(1)
                     /\ passwordreset' = Append(passwordreset,
                            [_id |-> NewObjectId(passwordreset), user_id |-> u._id,
                             token |-> token, expires_at |-> expires_at])
                     /\ out' = Response("forgot_password", r, 200, "Reset email sent",
                                        [token |-> token])
            ELSE /\ out' = Response("forgot_password", r, 200,
                                    "If an account exists, a reset email has been sent", None)
                 /\ UNCHANGED passwordreset
    /\ UNCHANGED <<indexOK, user, activity, now, pc, req, issued, used>>

\* The reset tokens a caller may submit: every one handed out, and one never issued.
ResetTokens == {passwordreset[i].token : i \in 1..Len(passwordreset)} \cup {0}

ExpiredAtOrAfter(expires_at, t) == expires_at <= t
\* rec["expires_at"] < datetime.utcnow()
Expired(expires_at, t) == expires_at < t

reset_password ==
    /\ out = None
    /\ \E token \in ResetTokens, new_password \in Passwords :
        LET r == [token |-> token, new_password |-> new_password]
            recs == get_documents_token(passwordreset, token)
        IN  IF recs = <<>>
            THEN /\ out' = Response("reset_password", r, 400, "Invalid token", None)
                 /\ UNCHANGED <<user, used>>
            ELSE IF Expired(recs[1].expires_at, now)
            THEN /\ out' = Response("reset_password", r, 400, "Token expired", None)
                 /\ UNCHANGED <<user, used>>
            ELSE /\ user' = update_one_password(user, FilterId(recs[1].user_id),
                                                get_password_hash(new_password))
                 /\ used' = used \cup {token}
                 /\ out' = Response("reset_password", r, 200, "Password updated", None)
    /\ UNCHANGED <<indexOK, activity, passwordreset, now, pc, req, issued>>

\* The bearer tokens a caller may present: those the server returned, and tokens
\* signed with another key that name a stored user id and the admin's email.
Forge(user_id, email) ==
    [user_id |-> user_id, email |-> email,
     exp |-> now + timedelta_minutes(ACCESS_TOKEN_EXPIRE_MINUTES),
     alg |-> ALGORITHM, key |-> "attacker-key"]
Forged == {Forge(str(user[i]._id), PRIMARY_ADMIN_EMAIL) : i \in 1..Len(user)}
BearerTokens == issued \cup Forged

me ==
    /\ out = None
    /\ \E token \in BearerTokens :
        LET r == [token |-> token]
            current == get_current_user(token, now)
        IN  IF current = None
            THEN out' = Unauthorized("me", r)
            ELSE out' = Response("me", r, 200, "", [_id |-> current._id, email |-> current.email])
    /\ UNCHANGED <<indexOK, store, now, pc, req, issued, used>>

admin_overview ==
    /\ out = None
    /\ \E token \in BearerTokens :
        LET r == [token |-> token]
            current == get_current_user(token, now)
        IN  IF current = None
            THEN out' = Unauthorized("admin_overview", r)
            ELSE IF ~is_admin(current)
            THEN out' = Response("admin_overview", r, 403, "Access denied", None)
            ELSE out' = Response("admin_overview", r, 200, "",
                                 [users |-> get_documents_all(user),
                                  activity |-> activity])
    /\ UNCHANGED <<indexOK, store, now, pc, req, issued, used>>

\* The user ids an activity entry may declare: the stored ones.
LogUserIds == {str(user[i]._id) : i \in 1..Len(user)}

log_activity ==
    /\ out = None
    /\ \E token \in BearerTokens, log_user_id \in LogUserIds :
        LET r == [token |-> token, user_id |-> log_user_id]
            current == get_current_user(token, now)
        IN  IF current = None
            THEN /\ out' = Unauthorized("log_activity", r)
                 /\ UNCHANGED activity
            ELSE IF current._id # log_user_id /\ ~is_admin(current)
            THEN /\ out' = Response("log_activity", r, 403, "Forbidden", None)
                 /\ UNCHANGED activity
            ELSE /\ Room(1)
                 /\ activity' = Append(activity, [user_id |-> log_user_id, type |-> "custom"])
                 /\ out' = Response("log_activity", r, 200, "", [ok |-> TRUE])
    /\ UNCHANGED <<indexOK, user, passwordreset, now, pc, req, issued, used>>

\* The clock: datetime.utcnow() an hour later.
Tick ==
    /\ out = None
    /\ now < MaxTicks * MinutesPerHour
    /\ now' = now + MinutesPerHour
    /\ out' = None
    /\ UNCHANGED <<indexOK, store, pc, req, issued, used>>

\* The response leaves the server.
Deliver ==
    /\ out # None
    /\ out' = None
    /\ UNCHANGED <<indexOK, store, now, pc, req, issued, used>>

Next ==
    \/ \E p \in Procs : SignupLookup(p)
    \/ \E p \in Procs : SignupInsert(p)
    \/ login
    \/ forgot_password
    \/ reset_password
    \/ me
    \/ admin_overview
    \/ log_activity
    \/ Tick
    \/ Deliver

Spec == Init /\ [][Next]_vars

\* ------------------------------------------------------------- claims
Sent(op) == out # None /\ out.op = op
Stored(email) == \E i \in 1..Len(user) : user[i].email = email
\* The stored users a string id, or a reset record's user_id, names.
Named(user_id) == {i \in 1..Len(user) : str(user[i]._id) = user_id}
\* The reset record a token is looked up to.
Record(token) == get_documents_token(passwordreset, token)
Found(token) == Record(token) # <<>>

\* C1: at most one User per normalized email, whatever the interleaving of
\* signups and whether or not the unique index was created.
C1_OneUserPerEmail ==
    \A i, j \in 1..Len(user) : lower(user[i].email) = lower(user[j].email) => i = j

\* C2: a signup whose lowercased email is stored does not get past its lookup:
\* the lookup answers it, with 400 "Email already registered", and leaves the
\* three collections and the tokens handed out as they were.
C2_StoredEmailIsTaken ==
    [][ /\ \A p \in Procs :
              pc[p] = "idle" /\ pc'[p] = "signup_insert" => ~Stored(lower(req'[p].email))
        /\ out' # None /\ out'.op = "signup" /\ (pc' = pc \/ out'.status = 400) =>
              /\ out'.status = 400
              /\ Stored(lower(out'.req.email))
              /\ out'.detail = "Email already registered"
              /\ out'.body = None
              /\ UNCHANGED <<user, activity, passwordreset, issued>> ]_vars

C2_Witness ==
    /\ Sent("signup") /\ out.status = 400
    /\ ~Stored(out.req.email) /\ Stored(lower(out.req.email))

\* C3: a signup that inserts while no User holds its lowercased email is
\* answered 200, adds exactly one User, with the lowercased email, and its
\* token names that User's id and email; every token handed out resolves,
\* until it expires, to the User whose id and email it names.
C3_TokenResolves ==
    \A token \in issued :
        now <= token.exp =>
            LET current == get_current_user(token, now)
            IN  /\ current # None
                /\ current._id = token.user_id
                /\ current.email = token.email
                /\ Cardinality(Named(token.user_id)) = 1

C3_SignupCreatesOne ==
    \A p \in Procs :
        pc[p] = "signup_insert" /\ pc'[p] = "idle" /\ ~Stored(lower(req[p].email)) =>
            /\ out'.status = 200
            /\ Len(user') = Len(user) + 1
            /\ SubSeq(user', 1, Len(user)) = user
            /\ user'[Len(user')].email = lower(req[p].email)
            /\ out'.body.access_token.user_id = str(user'[Len(user')]._id)
            /\ out'.body.access_token.email = lower(req[p].email)
            /\ out'.body.access_token \in issued'

C3_FreshSignup == []C3_TokenResolves /\ [][C3_SignupCreatesOne]_vars

C3_Witness ==
    /\ Sent("signup") /\ out.status = 200
    /\ out.req.email # lower(out.req.email)
    /\ get_current_user(out.body.access_token, now) # None
    /\ get_current_user(out.body.access_token, now).email = lower(out.req.email)

\* C4: a login succeeds, with a token for that User's id, exactly when a stored
\* User holds the lowercased email and a hash of the password; every failed
\* login is answered with the one 400 response and changes nothing.
C4_LoginOutcome ==
    Sent("login") =>
        LET S == {i \in 1..Len(user) : /\ user[i].email = lower(out.req.email)
                                       /\ verify_password(out.req.password, user[i].password)}
        IN  /\ S # {} => /\ out.status = 200
                         /\ \E i \in S : out.body.access_token.user_id = str(user[i]._id)
            /\ S = {} => /\ out.status = 400
                         /\ out.detail = "Incorrect email or password"
                         /\ out.body = None

\* C5 as claimed: whenever a reset token submitted before its expiry changes a
\* password, no password the User's hash verified before verifies afterwards.
ResetDone == out' # None /\ out'.op = "reset_password" /\ out'.status = 200
Target(token) == Named(Record(token)[1].user_id)

C5_OldPasswordNeverVerifies ==
    [][ ResetDone /\ now < Record(out'.req.token)[1].expires_at =>
            \A i \in Target(out'.req.token), password \in Passwords :
                verify_password(password, user[i].password) =>
                    ~verify_password(password, user'[i].password) ]_vars

\* C5, amended: a reset token of an existing User submitted before its expiry
\* is accepted; after an accepted reset that User's hash verifies the new
\* password and no other one, so the old password no longer verifies unless it
\* is the new one; login with the new password succeeds as that User and with
\* any other password fails; no other User is changed.
C5_AfterReset ==
    Sent("reset_password") =>
        /\ Found(out.req.token) /\ now < Record(out.req.token)[1].expires_at =>
              out.status = 200
        /\ out.status = 200 =>
              /\ Cardinality(Target(out.req.token)) = 1
              /\ \A i \in Target(out.req.token) :
                    /\ verify_password(out.req.new_password, user[i].password)
                    /\ authenticate(user[i].email, out.req.new_password) = Stringify(user[i])
                    /\ \A password \in Passwords \ {out.req.new_password} :
                          /\ ~verify_password(password, user[i].password)
                          /\ authenticate(user[i].email, password) = None

C5_OthersUnchanged ==
    ResetDone =>
        /\ Len(user') = Len(user)
        /\ \A i \in 1..Len(user) :
              /\ i \notin Target(out'.req.token) => user'[i] = user[i]
              /\ user'[i].email = user[i].email /\ user'[i]._id = user[i]._id

C5_ResetChangesPassword == []C5_AfterReset /\ [][C5_OthersUnchanged]_vars

C5_Witness ==
    /\ Sent("reset_password") /\ out.status = 200
    /\ now < Record(out.req.token)[1].expires_at
    /\ Len(user) > 1
    /\ \E i \in 1..Len(user) : ~verify_password(out.req.new_password, user[i].password)

\* C6 as claimed: a reset token that is not found, or whose record has
\* now >= expires_at, is answered 400.
C6_RejectedAtExpiry ==
    Sent("reset_password") =>
        (~Found(out.req.token) \/ now >= Record(out.req.token)[1].expires_at =>
            out.status = 400)

\* C6, amended: a reset token that is not found, or whose record has
\* now > expires_at, is answered 400 and no User is changed; a token submitted
\* at the instant now = expires_at is accepted; expires_at is the time of
\* issue plus one hour.
C6_Rejected ==
    /\ Sent("reset_password") =>
          /\ ~Found(out.req.token) => out.status = 400 /\ out.detail = "Invalid token"
          /\ Found(out.req.token) /\ now > Record(out.req.token)[1].expires_at =>
                out.status = 400 /\ out.detail = "Token expired"
          /\ Found(out.req.token) /\ now = Record(out.req.token)[1].expires_at =>
                out.status = 200
    /\ Sent("forgot_password") /\ out.body # None =>
          /\ Found(out.body.token)
          /\ Record(out.body.token)[1].expires_at = now + MinutesPerHour

C6_RejectedUnchanged ==
    out' # None /\ out'.op = "reset_password" /\ out'.status = 400 =>
        UNCHANGED <<user, activity, passwordreset, issued, used>>

C6_ExpiredTokenRejected == []C6_Rejected /\ [][C6_RejectedUnchanged]_vars

C6_Witness ==
    /\ Sent("reset_password") /\ out.status = 400
    /\ Found(out.req.token) /\ now > Record(out.req.token)[1].expires_at

\* C7: a reset token changes a password at most once: no reset_password call
\* is accepted with a token an earlier call was accepted with.
C7_SingleUse == [][ResetDone => out'.req.token \notin used]_vars

\* C8: a bearer token not signed with the server's key, or past its expiry, is
\* answered by every protected endpoint with the one 401 response, whatever
\* user id and email it names, and the request changes nothing.
Protected == {"me", "admin_overview", "log_activity"}

C8_Unauthorized ==
    out # None /\ out.op \in Protected =>
        (out.req.token.key # SECRET_KEY \/ out.req.token.exp < now =>
            /\ out.status = 401
            /\ out.detail = "Could not validate credentials"
            /\ out.body = None)

C8_UnauthorizedUnchanged ==
    out' # None /\ out'.op \in Protected /\ out'.status = 401 =>
        UNCHANGED <<user, activity, passwordreset, issued, used>>

C8_BadTokenRejected == []C8_Unauthorized /\ [][C8_UnauthorizedUnchanged]_vars

C8_Witness ==
    /\ Sent("admin_overview") /\ out.status = 401
    /\ out.req.token.key # SECRET_KEY
    /\ out.req.token.exp >= now
    /\ out.req.token.email = PRIMARY_ADMIN_EMAIL
    /\ \E i \in Named(out.req.token.user_id) : user[i].email = PRIMARY_ADMIN_EMAIL

\* C9: for a token that authenticates, admin_overview answers 200 with the
\* users and the activity exactly when the stored email of the User the token's
\* user_id names, lowercased, is PRIMARY_ADMIN_EMAIL, and 403 with no data
\* otherwise.
C9_AdminOnly ==
    Sent("admin_overview") /\ out.status # 401 =>
        /\ Cardinality(Named(out.req.token.user_id)) = 1
        /\ \A i \in Named(out.req.token.user_id) :
              IF lower(user[i].email) = PRIMARY_ADMIN_EMAIL
              THEN /\ out.status = 200
                   /\ out.body.users = get_documents_all(user)
                   /\ out.body.activity = activity
              ELSE /\ out.status = 403
                   /\ out.detail = "Access denied"
                   /\ out.body = None

C9_Witness ==
    /\ Sent("admin_overview") /\ out.status = 200
    /\ Len(out.body.users) > 1

\* C10: forgot_password for an email no User holds answers 200 with the generic
\* message and no token, and changes nothing; the passwordreset collection
\* changes only by forgot_password for a stored email, which appends one record
\* holding the id of the User found.
C10_Forgot ==
    /\ out' # None /\ out'.op = "forgot_password" /\ ~Stored(lower(out'.req.email)) =>
          /\ out'.status = 200
          /\ out'.detail = "If an account exists, a reset email has been sent"
          /\ out'.body = None
          /\ UNCHANGED <<user, activity, passwordreset, issued, used>>
    /\ passwordreset' # passwordreset =>
          /\ out' # None /\ out'.op = "forgot_password" /\ out'.status = 200
          /\ Len(passwordreset') = Len(passwordreset) + 1
          /\ SubSeq(passwordreset', 1, Len(passwordreset)) = passwordreset
          /\ LET rec == passwordreset'[Len(passwordreset')]
             IN  /\ rec.token = out'.body.token
                 /\ \E i \in Named(rec.user_id) : user[i].email = lower(out'.req.email)

C10_UnknownEmailNoRecord == [][C10_Forgot]_vars

C10_Witness ==
    /\ Sent("forgot_password") /\ out.body = None
    /\ Len(user) > 0 /\ ~Stored(lower(out.req.email))
====
